---- MODULE Spec2Model ----
(***************************************************************************)
(* Model of hammer.go: the coordinator (main) partitions `reqs` requests   *)
(* over `conc` worker goroutines (send_requests) and synchronises with     *)
(* them over three unbuffered channels: ready_ch, start_ch and done_ch.    *)
(* An unbuffered channel operation is a rendezvous: the send and the       *)
(* receive are one joint step of the two goroutines.                       *)
(***************************************************************************)
EXTENDS Integers, Sequences, FiniteSets, TLC

\* ---------------------------------------------------------------- bounds
MaxConc == 3        \* largest -concurrency explored by Spec
MaxReqs == 3        \* largest -requests explored by Spec
MaxBody == 1        \* longest -body explored (0 = no body)
FairMaxConc == 2    \* largest -concurrency explored by FairSpec
FairMaxReqs == 3    \* largest -requests explored by FairSpec
PartMaxConc == 6    \* largest -concurrency explored by PartSpec
PartMaxReqs == 14   \* largest -requests explored by PartSpec
ThruMaxReqs == 12   \* largest -requests explored by ThruSpec (and 1000)
ThruMaxMs == 12     \* longest run in ms explored by ThruSpec (and 2000)

VARIABLES
    conc,       \* flag -concurrency
    reqs,       \* flag -requests
    bodyLen,    \* len(body)
    badReq,     \* TRUE when http.NewRequest(method, url, ...) returns an error
    mainPc,     \* statement main is at
    i,          \* main's loop counter
    remaining,  \* main's `remaining`
    now,        \* the clock read by time.Now()
    begin,      \* main's `begin` (0 = not recorded yet)
    end,        \* main's `end`   (0 = not recorded yet)
    iter,       \* iter[w]: the `iter` argument of worker w
    wpc,        \* wpc[w]: statement worker w is at
    wi,         \* wi[w]: worker w's loop counter
    pos,        \* pos[w]: read cursor of worker w's body_reader
    calls,      \* calls[w]: client.Do calls issued by worker w
    sentFrom,   \* sentFrom[w]: cursor of body_reader when the latest client.Do began
    readySent,  \* readySent[w]: sends on ready_ch by worker w
    startRecv,  \* startRecv[w]: receives on start_ch by worker w
    doneSent,   \* doneSent[w]: sends on done_ch by worker w
    doFailedAt, \* doFailedAt[w]: index of the client.Do call that failed (0 = none)
    readFailedAt, \* readFailedAt[w]: index of the first call whose Body.Read failed (0 = none)
    printed     \* the values main gave to fmt.Printf

vars == <<conc, reqs, bodyLen, badReq, mainPc, i, remaining, now, begin, end,
          iter, wpc, wi, pos, calls, sentFrom, readySent, startRecv, doneSent,
          doFailedAt, readFailedAt, printed>>

mainVars == <<mainPc, i, remaining, now, begin, end, printed>>
inputVars == <<conc, reqs, bodyLen, badReq>>
workerVars == <<wpc, wi, pos, calls, sentFrom, readySent, startRecv, doneSent,
                doFailedAt, readFailedAt>>

Workers == 0 .. (conc - 1)

RECURSIVE SumTo(_, _)
SumTo(f, n) == IF n <= 0 THEN 0 ELSE f[n - 1] + SumTo(f, n - 1)

ReadyReceived == SumTo(readySent, conc)
StartSent == SumTo(startRecv, conc)
DoneReceived == SumTo(doneSent, conc)
TotalCalls == SumTo(calls, conc)

\* ------------------------------------------------------- pure helpers
\* n := remaining / (conc - i)
Share_FixedDivisor(rem, c, k) == rem \div c
Share_LastTakesRest(rem, c, k) == IF k = c - 1 THEN rem ELSE reqs \div c
Share_CeilFirst(rem, c, k) == (rem + (c - k) - 1) \div (c - k)
Share(rem, c, k) == rem \div (c - k)

\* loop conditions `i < conc` of main's four loops and `i < iter` of the worker
SpawnLoopCond(k, c) == k < c
ReadyLoopCond_OffByOne(k, c) == k < c - 1
ReadyLoopCond(k, c) == k < c
StartLoopCond_OffByOne(k, c) == k < c - 1
StartLoopCond(k, c) == k < c
DoneLoopCond_OffByOne(k, c) == k < c - 1
DoneLoopCond(k, c) == k < c
IterLoopCond_DoWhile(k, n) == k < n \/ k = 0
IterLoopCond_OffByOne(k, n) == k <= n
IterLoopCond_SharedBudget(k, n) == TotalCalls < reqs
IterLoopCond(k, n) == k < n

\* strings.Reader.Seek(offset, whence): <<new cursor, error>>
Seek_NoReset(cur, len, offset, whence) == <<cur, FALSE>>
Seek(cur, len, offset, whence) ==
    LET abs == CASE whence = 0 -> offset
                 [] whence = 1 -> cur + offset
                 [] whence = 2 -> len + offset
                 [] OTHER -> 0 - 1
    IN  IF whence \notin {0, 1, 2} \/ abs < 0
        THEN <<cur, TRUE>>
        ELSE <<abs, FALSE>>

\* statement order of main
MainOrder_BeginAfterStart ==
    <<"spawn", "wait_ready", "send_start", "begin", "wait_done", "end", "report", "exit">>
MainOrder ==
    <<"spawn", "wait_ready", "begin", "send_start", "wait_done", "end", "report", "exit">>

\* statement order of send_requests (the loop body is "loop", "read")
WorkerOrder_ReadyBeforeSetup ==
    <<"send_ready", "setup", "wait_start", "loop", "send_done", "returned">>
WorkerOrder_NoStartWait ==
    <<"setup", "send_ready", "loop", "send_done", "returned">>
WorkerOrder ==
    <<"setup", "send_ready", "wait_start", "loop", "send_done", "returned">>

SeqNext(order, p) ==
    LET k == CHOOSE j \in 1 .. Len(order) : order[j] = p
    IN  order[k + 1]

MainNext(p) == SeqNext(MainOrder, p)
WorkerNext(p) == SeqNext(WorkerOrder, p)

\* where the worker goes after `log.Println(err); break` on a client.Do error
AfterDoErr_Return == "returned"
AfterDoErr_FallThrough == "read"
AfterDoErr == WorkerNext("loop")

\* where the worker goes after `log.Println(err); return` on a NewRequest error
AfterSetupErr_Proceed == WorkerNext("setup")
AfterSetupErr == "returned"

\* where the worker goes after the `break` of the Body.Read loop:
\* resp.Body.Close(), i++ and the loop head
AfterReadErr == "loop"

\* ------------------------------------------------------------ float32
\* A float32 is [m, e], standing for m * 2^e, with m = 0 or 2^23 <= m < 2^24
\* (24 significant bits); results are rounded to nearest, ties to even.
\* Infinities, NaN and subnormals are outside the values the model reaches.
Pow2(n) == 2 ^ n

\* the number of significant bits of n, 0 <= n < 2^31
BitLen(n) ==
    CHOOSE b \in 0 .. 31 : /\ b = 0 \/ n >= Pow2(b - 1)
                           /\ b = 31 \/ n < Pow2(b)

F32Zero == [m |-> 0, e |-> 0]

\* F(x), with x evaluated once
Let(x, F(_)) == CHOOSE y \in {F(v) : v \in {x}} : TRUE

\* n * 2^e (plus a nonzero tail below the last bit of n when sticky) as a
\* float32, for n of b > 24 bits: the low b - 24 bits are rounded away
RoundOff(n, b, e, sticky) ==
    LET s == b - 24
        q == n \div Pow2(s)
        r == n % Pow2(s)
        half == Pow2(s - 1)
        up == r > half \/ (r = half /\ (sticky \/ q % 2 = 1))
    IN  Let(IF up THEN q + 1 ELSE q,
            LAMBDA q2 : IF q2 = Pow2(24)
                        THEN [m |-> Pow2(23), e |-> e + s + 1]
                        ELSE [m |-> q2, e |-> e + s])

\* n * 2^e (plus a nonzero tail below the last bit of n when sticky) as a float32
F32Round(n, e, sticky) ==
    Let(n, LAMBDA v :
        IF v = 0 THEN F32Zero
        ELSE Let(BitLen(v), LAMBDA b :
                 IF b <= 24
                 THEN [m |-> v * Pow2(24 - b), e |-> e - (24 - b)]
                 ELSE RoundOff(v, b, e, sticky)))

\* float32(n) of an integer
F32FromInt(n) == F32Round(n, 0, FALSE)

\* a * b: the 48-bit product of the significands, by 12-bit halves
F32Mul(a, b) ==
    IF a.m = 0 \/ b.m = 0 THEN F32Zero
    ELSE LET a1 == a.m \div 4096
             a0 == a.m % 4096
             b1 == b.m \div 4096
             b0 == b.m % 4096
             mid == a1 * b0 + a0 * b1
             low == a0 * b0 + (mid % 4096) * 4096
             hi == a1 * b1 + mid \div 4096 + low \div Pow2(24)
             lo == low % Pow2(24)
         IN  F32Round(hi * 64 + lo \div Pow2(18), a.e + b.e + 18, lo % Pow2(18) # 0)

\* a / b for b # 0: 26 quotient bits of the significands by long division
\* (7, 7, 7 and 4 bits at a time), then rounding
F32Div(a, b) ==
    IF a.m = 0 THEN F32Zero
    ELSE LET d == b.m
             q0 == a.m \div d
             r0 == a.m % d
             q1 == (r0 * 128) \div d
             r1 == (r0 * 128) % d
             q2 == (r1 * 128) \div d
             r2 == (r1 * 128) % d
             q3 == (r2 * 128) \div d
             r3 == (r2 * 128) % d
             q4 == (r3 * 16) \div d
             r4 == (r3 * 16) % d
         IN  F32Round((((q0 * 128 + q1) * 128 + q2) * 128 + q3) * 16 + q4,
                      a.e - b.e - 25, r4 # 0)

\* the constant of `float32(reqs) * 1000000000 / elapsed`
Billion == 1000000000

F32Billion == F32FromInt(Billion)

\* throughput := float32(reqs) * 1000000000 / elapsed
Throughput_NoScale(r, elapsed) == F32Div(F32FromInt(r), elapsed)
Throughput(r, elapsed) ==
    \* each intermediate value is bound once, as the member of a singleton set
    CHOOSE t \in {F32Div(product, el) :
                    product \in {F32Mul(x, F32Billion) : x \in {F32FromInt(r)}},
                    el \in {elapsed}} : TRUE

\* the request count main reports and divides by the elapsed time: `reqs`
ReportedRequests_Completed == TotalCalls
ReportedRequests == reqs

NothingPrinted == [requests |-> 0, seconds |-> F32Zero, throughput |-> F32Zero]

\* the counts handed out by main's spawn loop from its k-th pass on
RECURSIVE Shares(_, _, _)
Shares(rem, c, k) ==
    IF ~SpawnLoopCond(k, c)
    THEN <<>>
    ELSE LET n == Share(rem, c, k)
         IN  <<n>> \o Shares(rem - n, c, k + 1)

\* ------------------------------------------------------------- Init
InitWith(maxConc, maxReqs) ==
    /\ conc \in 0 .. maxConc
    /\ reqs \in 0 .. maxReqs
    /\ bodyLen \in 0 .. MaxBody
    /\ badReq \in BOOLEAN
    /\ mainPc = MainOrder[1]
    /\ i = 0
    /\ remaining = reqs
    /\ now = 1
    /\ begin = 0
    /\ end = 0
    /\ iter = [w \in Workers |-> 0]
    /\ wpc = [w \in Workers |-> "unspawned"]
    /\ wi = [w \in Workers |-> 0]
    /\ pos = [w \in Workers |-> 0]
    /\ calls = [w \in Workers |-> 0]
    /\ sentFrom = [w \in Workers |-> 0]
    /\ readySent = [w \in Workers |-> 0]
    /\ startRecv = [w \in Workers |-> 0]
    /\ doneSent = [w \in Workers |-> 0]
    /\ doFailedAt = [w \in Workers |-> 0]
    /\ readFailedAt = [w \in Workers |-> 0]
    /\ printed = NothingPrinted

Init == InitWith(MaxConc, MaxReqs)

\* time passes: between two readings of the clock, and with every request
Tick == now' = now + 1

\* ------------------------------------------------------------- main
\* for i := 0; i < conc; i++ { n := remaining / (conc - i); go send_requests(.. n ..); remaining -= n }
MainSpawn ==
    /\ mainPc = "spawn"
    /\ SpawnLoopCond(i, conc)
    /\ LET n == Share(remaining, conc, i)
       IN  /\ iter' = [iter EXCEPT ![i] = n]
           /\ remaining' = remaining - n
    /\ wpc' = [wpc EXCEPT ![i] = WorkerOrder[1]]
    /\ i' = i + 1
    /\ UNCHANGED <<inputVars, printed, mainPc, now, begin, end, wi, pos, calls, sentFrom,
                   readySent, startRecv, doneSent, doFailedAt, readFailedAt>>

\* a loop of main ends: go to the next statement
MainLoopExit ==
    /\ \/ mainPc = "spawn" /\ ~SpawnLoopCond(i, conc)
       \/ mainPc = "wait_ready" /\ ~ReadyLoopCond(i, conc)
       \/ mainPc = "send_start" /\ ~StartLoopCond(i, conc)
       \/ mainPc = "wait_done" /\ ~DoneLoopCond(i, conc)
    /\ mainPc' = MainNext(mainPc)
    /\ i' = 0
    /\ UNCHANGED <<inputVars, printed, remaining, now, begin, end, iter, workerVars>>

\* begin := time.Now()
MainBegin ==
    /\ mainPc = "begin"
    /\ begin' = now
    /\ mainPc' = MainNext(mainPc)
    /\ Tick
    /\ UNCHANGED <<inputVars, printed, i, remaining, end, iter, workerVars>>

\* end := time.Now()
MainEnd ==
    /\ mainPc = "end"
    /\ end' = now
    /\ mainPc' = MainNext(mainPc)
    /\ Tick
    /\ UNCHANGED <<inputVars, printed, i, remaining, begin, iter, workerVars>>

\* elapsed := float32(end.Sub(begin)); throughput := ...; fmt.Printf(...); return
MainReport ==
    /\ mainPc = "report"
    /\ \E elapsed \in {F32FromInt(end - begin)} :
          printed' = [requests |-> ReportedRequests,
                      seconds |-> F32Div(elapsed, F32Billion),
                      throughput |-> Throughput(ReportedRequests, elapsed)]
    /\ mainPc' = MainNext(mainPc)
    /\ UNCHANGED <<inputVars, i, remaining, now, begin, end, iter, workerVars>>

\* ------------------------------------------------------ rendezvous
\* worker: ready_ch <- true     main: <-ready_ch
ReadyRendezvous(w) ==
    /\ mainPc = "wait_ready"
    /\ ReadyLoopCond(i, conc)
    /\ wpc[w] = "send_ready"
    /\ readySent' = [readySent EXCEPT ![w] = @ + 1]
    /\ wpc' = [wpc EXCEPT ![w] = WorkerNext("send_ready")]
    /\ i' = i + 1
    /\ UNCHANGED <<inputVars, printed, mainPc, remaining, now, begin, end, iter, wi, pos,
                   calls, sentFrom, startRecv, doneSent, doFailedAt, readFailedAt>>

\* main: start_ch <- true       worker: <-start_ch
StartRendezvous(w) ==
    /\ mainPc = "send_start"
    /\ StartLoopCond(i, conc)
    /\ wpc[w] = "wait_start"
    /\ startRecv' = [startRecv EXCEPT ![w] = @ + 1]
    /\ wpc' = [wpc EXCEPT ![w] = WorkerNext("wait_start")]
    /\ i' = i + 1
    /\ UNCHANGED <<inputVars, printed, mainPc, remaining, now, begin, end, iter, wi, pos,
                   calls, sentFrom, readySent, doneSent, doFailedAt, readFailedAt>>

\* worker: done_ch <- true      main: <-done_ch
DoneRendezvous(w) ==
    /\ mainPc = "wait_done"
    /\ DoneLoopCond(i, conc)
    /\ wpc[w] = "send_done"
    /\ doneSent' = [doneSent EXCEPT ![w] = @ + 1]
    /\ wpc' = [wpc EXCEPT ![w] = WorkerNext("send_done")]
    /\ i' = i + 1
    /\ UNCHANGED <<inputVars, printed, mainPc, remaining, now, begin, end, iter, wi, pos,
                   calls, sentFrom, readySent, startRecv, doFailedAt, readFailedAt>>

\* ----------------------------------------------------------- worker
\* body_reader = strings.NewReader(body); req, err := http.NewRequest(...);
\* on error: log and return; else add the headers and the credentials
WorkerSetup(w) ==
    /\ wpc[w] = "setup"
    /\ pos' = [pos EXCEPT ![w] = 0]
    /\ wpc' = [wpc EXCEPT ![w] = IF badReq THEN AfterSetupErr ELSE WorkerNext("setup")]
    /\ UNCHANGED <<inputVars, mainVars, iter, wi, calls, sentFrom, readySent,
                   startRecv, doneSent, doFailedAt, readFailedAt>>

\* one pass from the loop head to the return of client.Do:
\*   `i < iter` false: leave the loop;
\*   body_reader.Seek(0, 0) when there is a body; on error: log, break;
\*   resp, err := client.Do(req): the transport reads the body from the cursor
\*   up to some point and returns an error (log, break) or a response
WorkerIter(w) ==
    /\ wpc[w] = "loop"
    /\ LET r == IF bodyLen > 0 THEN Seek(pos[w], bodyLen, 0, 0) ELSE <<pos[w], FALSE>>
       IN  IF ~IterLoopCond(wi[w], iter[w])
           THEN /\ wpc' = [wpc EXCEPT ![w] = WorkerNext("loop")]
                /\ UNCHANGED <<pos, calls, sentFrom, doFailedAt, now>>
           ELSE IF r[2]
           THEN /\ wpc' = [wpc EXCEPT ![w] = WorkerNext("loop")]
                /\ pos' = [pos EXCEPT ![w] = r[1]]
                /\ UNCHANGED <<calls, sentFrom, doFailedAt, now>>
           ELSE /\ calls' = [calls EXCEPT ![w] = @ + 1]
                /\ sentFrom' = [sentFrom EXCEPT ![w] = r[1]]
                /\ \E p \in r[1] .. bodyLen : pos' = [pos EXCEPT ![w] = p]
                /\ Tick
                /\ \/ /\ doFailedAt' = [doFailedAt EXCEPT ![w] = calls[w] + 1]
                      /\ wpc' = [wpc EXCEPT ![w] = AfterDoErr]
                   \/ /\ wpc' = [wpc EXCEPT ![w] = "read"]
                      /\ UNCHANGED doFailedAt
    /\ UNCHANGED <<inputVars, printed, mainPc, i, remaining, begin, end, iter, wi,
                   readySent, startRecv, doneSent, readFailedAt>>

\* the loop `for { _, err = resp.Body.Read(buf); if err != nil {...; break} }`
\* up to its break, on io.EOF or on another error (log), then
\* resp.Body.Close() and i++; a response body is finite
WorkerRead(w) ==
    /\ wpc[w] = "read"
    /\ \E eof \in BOOLEAN :
          readFailedAt' = IF ~eof /\ readFailedAt[w] = 0
                          THEN [readFailedAt EXCEPT ![w] = calls[w]]
                          ELSE readFailedAt
    /\ wpc' = [wpc EXCEPT ![w] = AfterReadErr]
    /\ wi' = [wi EXCEPT ![w] = @ + 1]
    /\ UNCHANGED <<inputVars, mainVars, iter, pos, calls, sentFrom, readySent,
                   startRecv, doneSent, doFailedAt>>

\* ------------------------------------------------------------- Next
Main == MainSpawn \/ MainLoopExit \/ MainBegin \/ MainEnd \/ MainReport

Worker(w) ==
    \/ WorkerSetup(w)
    \/ ReadyRendezvous(w)
    \/ StartRendezvous(w)
    \/ WorkerIter(w)
    \/ WorkerRead(w)
    \/ DoneRendezvous(w)

Next == Main \/ \E w \in Workers : Worker(w)

Spec == Init /\ [][Next]_vars

\* every goroutine that can take a step eventually takes one
FairInit == InitWith(FairMaxConc, FairMaxReqs)
FairSpec ==
    /\ FairInit
    /\ [][Next]_vars
    /\ WF_vars(Main)
    /\ \A w \in 0 .. (FairMaxConc - 1) : WF_vars(w \in Workers /\ Worker(w))

\* the partition loop alone, over a larger range of inputs
PartInit == InitWith(PartMaxConc, PartMaxReqs) /\ bodyLen = 0 /\ ~badReq
PartNext == MainSpawn
PartSpec == PartInit /\ [][PartNext]_vars

\* the end of a run of one worker, over a range of request counts and run times
ThruReqs == (0 .. ThruMaxReqs) \cup {1000}
ThruElapsed == {k * 1000000 : k \in (1 .. ThruMaxMs) \cup {2000}}
ThruInit ==
    /\ conc = 1
    /\ reqs \in ThruReqs
    /\ bodyLen = 0
    /\ badReq = FALSE
    /\ mainPc = "end"
    /\ i = 0
    /\ remaining = 0
    /\ begin = 1
    /\ \E el \in ThruElapsed : now = begin + el
    /\ end = 0
    /\ iter = [w \in Workers |-> reqs]
    /\ wpc = [w \in Workers |-> "returned"]
    /\ wi = [w \in Workers |-> reqs]
    /\ pos = [w \in Workers |-> 0]
    /\ calls = [w \in Workers |-> reqs]
    /\ sentFrom = [w \in Workers |-> 0]
    /\ readySent = [w \in Workers |-> 1]
    /\ startRecv = [w \in Workers |-> 1]
    /\ doneSent = [w \in Workers |-> 1]
    /\ doFailedAt = [w \in Workers |-> 0]
    /\ readFailedAt = [w \in Workers |-> 0]
    /\ printed = NothingPrinted
ThruNext == MainEnd \/ MainReport
ThruSpec == ThruInit /\ [][ThruNext]_vars

\* ------------------------------------------------------ vocabulary
InLoop(w) == wpc[w] \in {"loop", "read"}
Issuing(w) == calls[w] > 0 \/ wpc[w] = "read"
SetupDone(w) == wpc[w] \notin {"unspawned", "setup"}
Assigned == IF mainPc = "spawn" THEN 0 .. (i - 1) ELSE Workers
Floor(r, c) == r \div c
Ceil(r, c) == (r + c - 1) \div c

\* C1. Barrier ordering: with conc >= 1 no Start signal is sent before all
\* conc Ready signals are received, and no worker is issuing (or has issued)
\* a Transport call while some worker has not finished its setup or has not
\* had its Ready signal received.
C1_BarrierOrdering ==
    conc >= 1 =>
        /\ StartSent > 0 => ReadyReceived = conc
        /\ \A w \in Workers :
              (Issuing(w) \/ InLoop(w)) =>
                  \A v \in Workers : SetupDone(v) /\ readySent[v] = 1

C1_Witness ==
    /\ conc >= 2
    /\ StartSent < conc
    /\ \E w \in Workers : calls[w] > 0
    /\ ReadyReceived = conc

\* C2. Partition completeness: the counts assigned so far plus `remaining`
\* always add up to reqs, every count is non-negative, and with conc >= 1,
\* once all conc workers have their count, the counts sum to reqs and
\* remaining = 0.
C2_PartitionComplete ==
    /\ SumTo(iter, conc) + remaining = reqs
    /\ \A w \in Workers : iter[w] >= 0
    /\ remaining >= 0
    /\ (conc >= 1 /\ Assigned = Workers) =>
          /\ SumTo(iter, conc) = reqs
          /\ remaining = 0

C2_Witness ==
    /\ conc >= 3
    /\ reqs % conc # 0
    /\ reqs > conc
    /\ Assigned = Workers
    /\ remaining = 0

\* C3. Done-count: once main is past its done loop (it records `end` and
\* reports), it has received exactly conc Done signals, one from each
\* worker, every worker has returned and none is inside its loop, also
\* when some worker stopped early on a transport error.
C3_DoneCount ==
    (mainPc \in {"end", "report", "exit"} \/ end > 0) =>
        /\ DoneReceived = conc
        /\ \A w \in Workers :
              /\ doneSent[w] = 1
              /\ wpc[w] = "returned"
              /\ ~InLoop(w)

C3_Witness ==
    /\ end > 0
    /\ conc >= 2
    /\ \E w \in Workers : doFailedAt[w] > 0 /\ calls[w] < iter[w]
    /\ \E w \in Workers : doFailedAt[w] = 0 /\ calls[w] = iter[w] /\ iter[w] > 0

\* C4. Timer start placement: `begin` is recorded only when all conc Ready
\* signals have been received, no Start signal is sent before it is
\* recorded, and a worker in its loop or with a Transport call issued
\* implies that begin is recorded, at an earlier clock value, and that every
\* worker has completed setup.
C4_TimerStart ==
    /\ begin > 0 => (ReadyReceived = conc /\ begin < now)
    /\ StartSent > 0 => begin > 0
    /\ \A w \in Workers :
          (Issuing(w) \/ InLoop(w)) =>
              /\ begin > 0
              /\ \A v \in Workers : SetupDone(v)

C4_Witness ==
    /\ begin > 0
    /\ conc >= 2
    /\ StartSent = 0
    /\ TotalCalls = 0
    /\ \A w \in Workers : wpc[w] = "wait_start"

\* C5 (as stated). Handshake exactly once per worker in every run: a worker
\* that has returned has sent exactly one Ready, received exactly one Start
\* and sent exactly one Done; the signals of a worker come in that order;
\* no worker issues a Transport call before its own Start.
C5_Original ==
    \A w \in Workers :
        /\ readySent[w] <= 1
        /\ startRecv[w] <= readySent[w]
        /\ doneSent[w] <= startRecv[w]
        /\ (Issuing(w) \/ InLoop(w)) => startRecv[w] = 1
        /\ InLoop(w) => doneSent[w] = 0
        /\ wpc[w] = "returned" =>
              (readySent[w] = 1 /\ startRecv[w] = 1 /\ doneSent[w] = 1)

\* C5 (amended). Each worker sends at most one Ready, then receives at most
\* one Start, then sends at most one Done, in that order; no worker issues a
\* Transport call before its own Start or after its Done; a worker whose
\* request construction succeeded has, when it returns, sent exactly one
\* Ready, received exactly one Start and sent exactly one Done, and so has
\* every worker when main exits; a worker whose request construction failed
\* returns having sent and received nothing.
C5_Handshake ==
    \A w \in Workers :
        /\ readySent[w] <= 1
        /\ startRecv[w] <= readySent[w]
        /\ doneSent[w] <= startRecv[w]
        /\ (Issuing(w) \/ InLoop(w)) => startRecv[w] = 1
        /\ InLoop(w) => doneSent[w] = 0
        /\ wpc[w] = "send_done" => (startRecv[w] = 1 /\ doneSent[w] = 0)
        /\ ((wpc[w] = "returned" /\ ~badReq) \/ mainPc = "exit") =>
              (readySent[w] = 1 /\ startRecv[w] = 1 /\ doneSent[w] = 1)
        /\ (wpc[w] = "returned" /\ badReq) =>
              (readySent[w] = 0 /\ startRecv[w] = 0 /\ doneSent[w] = 0 /\ calls[w] = 0)

C5_Witness ==
    /\ conc >= 2
    /\ ~badReq
    /\ \E w, v \in Workers :
          /\ wpc[w] = "returned" /\ doneSent[w] = 1 /\ calls[w] > 0
          /\ wpc[v] = "read" /\ startRecv[v] = 1

\* C6. Termination: when request construction succeeds, under fair
\* scheduling main eventually exits having received conc Done signals, and
\* no state other than main's exit is without a next step, whichever
\* Transport calls fail.
C6_Termination ==
    (~badReq) =>
        /\ <>(mainPc = "exit" /\ DoneReceived = conc)
        /\ [](~(ENABLED Next) => mainPc = "exit")

C6_Witness ==
    /\ mainPc = "exit"
    /\ ~badReq
    /\ conc >= 2
    /\ \E w \in Workers : doFailedAt[w] > 0 /\ calls[w] < iter[w]
    /\ \E w \in Workers : doFailedAt[w] = 0

\* C7 (as stated). Simultaneous release: no worker has issued a Transport
\* call, or finished its assignment, while another worker has not received
\* its Start signal.
C7_Original ==
    \A w, v \in Workers :
        (Issuing(w) \/ (wpc[w] \in {"send_done", "returned"} /\ startRecv[w] = 1)) =>
            startRecv[v] = 1

\* C7 (amended). Sequential release after the barrier: when a worker has
\* received its Start (and may be issuing Transport calls or have finished
\* its assignment), every other worker either has received its Start too or
\* has completed setup, has had its Ready received and is blocked on
\* start_ch while main is still in its Start loop with a send left for it.
C7_SequentialRelease ==
    \A w, v \in Workers :
        startRecv[w] = 1 =>
            \/ startRecv[v] = 1
            \/ /\ wpc[v] = "wait_start"
               /\ readySent[v] = 1
               /\ mainPc = "send_start"
               /\ StartLoopCond(i, conc)
               /\ conc - i = Cardinality({u \in Workers : startRecv[u] = 0})

C7_Witness ==
    \E w, v \in Workers :
        /\ wpc[w] = "send_done"
        /\ calls[w] = iter[w]
        /\ iter[w] > 0
        /\ startRecv[v] = 0
        /\ wpc[v] = "wait_start"

\* C8. Early termination on a failed request: when the k-th client.Do of a
\* worker assigned n >= k iterations has failed, the worker has issued
\* exactly k calls and completed k - 1 iterations, and it is at its Done send
\* or has returned with its Done sent; when main exits its Done is sent.
C8_EarlyTermination ==
    \A w \in Workers :
        doFailedAt[w] > 0 =>
            /\ doFailedAt[w] <= iter[w]
            /\ calls[w] = doFailedAt[w]
            /\ wi[w] = doFailedAt[w] - 1
            /\ wpc[w] \in {"send_done", "returned"}
            /\ (wpc[w] = "returned" \/ mainPc = "exit") => doneSent[w] = 1

C8_Witness ==
    \E w \in Workers :
        /\ iter[w] = 3
        /\ doFailedAt[w] = 2
        /\ calls[w] = 2
        /\ doneSent[w] = 1

\* C9 (as stated). Any error in an iteration ends the loop: after a failed
\* client.Do, and after a Body.Read error other than io.EOF, the worker
\* issues no further Transport call: its call count stays the index of the
\* call that failed, or whose Body.Read failed first.
C9_AnyErrorEndsLoop ==
    \A w \in Workers :
        /\ doFailedAt[w] > 0 => calls[w] = doFailedAt[w]
        /\ readFailedAt[w] > 0 => calls[w] = readFailedAt[w]

\* C10. Partition fairness: every assigned count is floor(reqs/conc) or
\* ceil(reqs/conc), so two assigned counts differ by at most 1.
C10_PartitionFair ==
    \A w, v \in Assigned :
        /\ iter[w] \in {Floor(reqs, conc), Ceil(reqs, conc)}
        /\ iter[w] - iter[v] <= 1
        /\ iter[v] - iter[w] <= 1

C10_Witness ==
    /\ conc >= 3
    /\ Assigned = Workers
    /\ \E w, v \in Workers : iter[w] = iter[v] + 1
    /\ \E w, v \in Workers : w # v /\ iter[w] = iter[v]

\* C11 (as stated). Partition order: the assigned counts are non-increasing
\* in the worker index; the ceiling shares go to the lowest-indexed workers.
C11_Original ==
    \A w, v \in Assigned : w < v => iter[w] >= iter[v]

\* C11 (amended). Partition order: the assigned counts are non-decreasing in
\* the worker index; the first conc - (reqs % conc) workers get
\* floor(reqs/conc) and the last reqs % conc workers get ceil(reqs/conc).
C11_PartitionOrder ==
    /\ \A w, v \in Assigned : w < v => iter[w] <= iter[v]
    /\ \A w \in Assigned :
          iter[w] = IF w < conc - (reqs % conc)
                    THEN Floor(reqs, conc)
                    ELSE Ceil(reqs, conc)

C11_Witness ==
    /\ conc >= 3
    /\ reqs % conc \in 1 .. (conc - 2)
    /\ Assigned = Workers
    /\ iter[0] + 1 = iter[conc - 1]
    /\ iter[0] = iter[1]

\* the counts main hands out for -requests 3 -concurrency 10
SharesOf3Among10 == Shares(3, 10, 0)

\* C12. Zero-iteration workers stay in the barrier: a worker assigned 0
\* iterations never issues a Transport call; when reqs < conc exactly
\* conc - reqs workers are assigned 0 and reqs workers are assigned 1 (for
\* conc = 10, reqs = 3: seven 0 and three 1); when main exits it has counted
\* conc Ready and conc Done signals and every zero-iteration worker has sent
\* Ready, received Start and sent Done.
C12_ZeroIteration ==
    /\ Len(SharesOf3Among10) = 10
    /\ Cardinality({k \in 1 .. 10 : SharesOf3Among10[k] = 0}) = 7
    /\ Cardinality({k \in 1 .. 10 : SharesOf3Among10[k] = 1}) = 3
    /\ \A w \in Workers : iter[w] = 0 => (calls[w] = 0 /\ wpc[w] # "read")
    /\ (Assigned = Workers /\ reqs < conc) =>
          /\ Cardinality({w \in Workers : iter[w] = 0}) = conc - reqs
          /\ Cardinality({w \in Workers : iter[w] = 1}) = reqs
    /\ mainPc = "exit" =>
          /\ ReadyReceived = conc
          /\ DoneReceived = conc
          /\ \A w \in Workers :
                iter[w] = 0 =>
                    (readySent[w] = 1 /\ startRecv[w] = 1 /\ doneSent[w] = 1)

C12_Witness ==
    /\ mainPc = "exit"
    /\ conc = 3
    /\ reqs = 1
    /\ \E w \in Workers : iter[w] = 0 /\ doneSent[w] = 1 /\ calls[w] = 0
    /\ \E w \in Workers : iter[w] = 1 /\ calls[w] = 1

\* C13. Request budget: a worker never issues more Transport calls than its
\* assigned count, so the total never exceeds reqs; when main (conc >= 1) is
\* past its done loop and no client.Do and no Body.Read has failed, the
\* total number of Transport calls is exactly reqs.
C13_RequestBudget ==
    /\ \A w \in Workers : calls[w] <= iter[w]
    /\ TotalCalls <= reqs
    /\ ( /\ conc >= 1
         /\ mainPc \in {"end", "report", "exit"}
         /\ \A w \in Workers : doFailedAt[w] = 0 /\ readFailedAt[w] = 0 )
       => TotalCalls = reqs

C13_Witness ==
    /\ mainPc = "exit"
    /\ conc = 2
    /\ reqs = 3
    /\ \A w \in Workers : doFailedAt[w] = 0 /\ readFailedAt[w] = 0
    /\ TotalCalls = 3

\* C14. Errors are local to one worker: the step in which a client.Do of
\* worker w fails changes nothing of main and nothing of any other worker
\* (its assignment, position, counters and signals); assignments never change
\* once handed out; a worker without a failed call of its own has issued
\* exactly its assigned number of calls when it leaves its loop, whatever
\* happened to the others; and main still passes its three phases: when it
\* exits, all Ready, Start and Done signals are counted.
C14_ErrorFrame ==
    [][ /\ \A w \in Workers :
              doFailedAt'[w] # doFailedAt[w] =>
                  /\ <<mainPc, i, remaining, begin, end>>' = <<mainPc, i, remaining, begin, end>>
                  /\ \A v \in Workers \ {w} :
                        <<iter[v], wpc[v], wi[v], pos[v], calls[v], readySent[v],
                          startRecv[v], doneSent[v], doFailedAt[v]>>'
                        = <<iter[v], wpc[v], wi[v], pos[v], calls[v], readySent[v],
                            startRecv[v], doneSent[v], doFailedAt[v]>>
        /\ \A v \in Workers : wpc[v] # "unspawned" => iter'[v] = iter[v]
        /\ \A v \in Workers :
              (doFailedAt'[v] = 0 /\ wpc'[v] \in {"send_done", "returned"} /\ ~badReq)
                  => calls'[v] = iter'[v]
        /\ mainPc' = "exit" =>
              (ReadyReceived' = conc /\ StartSent' = conc /\ DoneReceived' = conc)
      ]_vars

C14_Witness ==
    /\ mainPc = "exit"
    /\ conc >= 2
    /\ \E w, v \in Workers :
          /\ doFailedAt[w] = 1
          /\ iter[w] = 2
          /\ calls[w] = 1
          /\ doFailedAt[v] = 0
          /\ iter[v] = 1
          /\ calls[v] = 1

\* C15. Reported total is the requested total: the request count main
\* prints, and the numerator of the printed throughput, is the requested
\* reqs, whatever the number of client.Do calls issued; when some worker
\* left its loop early the printed count is strictly greater than the
\* number of calls issued.
C15_ReportedTotal ==
    mainPc = "exit" =>
        /\ printed.requests = reqs
        /\ printed.throughput =
              F32Div(F32Mul(F32FromInt(reqs), F32FromInt(Billion)),
                     F32FromInt(end - begin))
        /\ (\E w \in Workers : calls[w] < iter[w]) =>
              printed.requests > TotalCalls

C15_Witness ==
    /\ mainPc = "exit"
    /\ \E w \in Workers : doFailedAt[w] > 0 /\ calls[w] < iter[w]
    /\ printed.requests = 3
    /\ TotalCalls = 1

RECURSIVE GCD(_, _)
GCD(a, b) == IF b = 0 THEN a ELSE GCD(b, a % b)

\* the float32 t is within u units in its last place of the fraction num/den
WithinUlps(t, num, den, u) ==
    LET g == GCD(num, den)
        n == num \div g
        d == den \div g
        lhs == IF t.e >= 0 THEN t.m * Pow2(t.e) * d ELSE t.m * d
        rhs == IF t.e >= 0 THEN n ELSE n * Pow2(0 - t.e)
        tol == IF t.e >= 0 THEN u * Pow2(t.e) * d ELSE u * d
        \* t is not too small for the comparison below: n * 2^(-t.e) <= (2^24 + u) * d
        comparable == \/ t.e >= 0
                      \/ /\ 0 - t.e <= 30
                         /\ n <= ((Pow2(24) + u) * d) \div Pow2(0 - t.e)
    IN  comparable /\ lhs - rhs <= tol /\ rhs - lhs <= tol

C17_ReplayableBody ==
    \A w \in Workers :
        bodyLen > 0 =>
            /\ calls[w] > 0 => sentFrom[w] = 0
            /\ Seek(pos[w], bodyLen, 0, 0) = <<0, FALSE>>

C17_Witness ==
    /\ bodyLen > 0
    /\ \E w \in Workers :
          /\ calls[w] = 3
          /\ wi[w] = 2
          /\ wpc[w] = "read"
          /\ pos[w] = bodyLen
          /\ sentFrom[w] = 0

\* C18 (as stated). Setup failure: once a worker has returned from a failed
\* request construction, every other worker that is past its own setup is
\* blocked on its Ready send or its Start receive.
C18_Original ==
    (conc >= 1 /\ badReq) =>
        \A w, v \in Workers :
            (w # v /\ wpc[w] = "returned" /\ SetupDone(v)) =>
                wpc[v] \in {"send_ready", "wait_start"}

\* C18 (amended). Setup failure breaks the barrier: when request construction
\* fails it fails in every worker (all are built from the same method and
\* URL); each worker returns having sent neither Ready nor Done, none is
\* ever blocked on Ready or Start; main never receives a Ready signal,
\* never records begin or end, never sends Start, no Transport call is ever
\* issued, and main stays in its ready loop: once all workers have returned
\* no step is possible.
C18_SetupFailure ==
    (conc >= 1 /\ badReq) =>
        /\ mainPc \in {"spawn", "wait_ready"}
        /\ mainPc = "wait_ready" => i = 0
        /\ ReadyReceived = 0 /\ StartSent = 0 /\ DoneReceived = 0
        /\ begin = 0 /\ end = 0
        /\ TotalCalls = 0
        /\ \A w \in Workers :
              /\ wpc[w] \in {"unspawned", "setup", "returned"}
              /\ readySent[w] = 0 /\ startRecv[w] = 0 /\ doneSent[w] = 0
        /\ (\A w \in Workers : wpc[w] = "returned") =>
              (mainPc = "wait_ready" => ~(ENABLED Next))

C18_Witness ==
    /\ badReq
    /\ conc >= 2
    /\ mainPc = "wait_ready"
    /\ \A w \in Workers : wpc[w] = "returned"

\* C19. Phase counters are nested: Done received <= Start sent <= Ready
\* received <= conc; a Start sent implies all conc Ready signals received; a
\* Done received implies all conc Start signals sent; so a worker that
\* finished its iterations while main is still sending Start signals is
\* held at its Done send.
C19_PhaseCounters ==
    LET ready == ReadyReceived
        start == StartSent
        done == DoneReceived
    IN  /\ done <= start
        /\ start <= ready
        /\ ready <= conc
        /\ start > 0 => ready = conc
        /\ done > 0 => start = conc
        /\ \A w \in Workers :
              (wpc[w] = "send_done" /\ start < conc) =>
                  (doneSent[w] = 0 /\ mainPc = "send_start" /\ ~(ENABLED DoneRendezvous(w)))

C19_Witness ==
    /\ conc = 3
    /\ mainPc = "send_start"
    /\ StartSent = 2
    /\ DoneReceived = 0
    /\ \E w \in Workers : wpc[w] = "send_done" /\ calls[w] = iter[w] /\ iter[w] = 1
====
